---- MODULE Spec2Model ----
(***************************************************************************)
(* Model of the balance aggregation engine of ledger-obsidian-traveller    *)
(* (src/src/balance-utils.ts, src/src/error.ts) and of the date range      *)
(* selector that feeds it.                                                 *)
(*                                                                         *)
(* Strings are sequences of one-character strings, so that template        *)
(* literals, padStart, split, join, startsWith and the relational          *)
(* operators on strings are computed and not assumed.  A Moment is a       *)
(* record [year, dayOfYear] of the proleptic Gregorian calendar.           *)
(***************************************************************************)
EXTENDS Integers, Sequences, FiniteSets, TLC

VARIABLES
  pc,         \* the engine function that has just been called, or "idle"
  args,       \* its arguments
  ret,        \* its result
  startDate,  \* DateRangeSelector: props.startDate
  endDate,    \* DateRangeSelector: props.endDate
  interval,   \* DateRangeSelector: props.interval
  notice,     \* the Notice shown by the last event of the selector
  event       \* the last event of the selector

vars == <<pc, args, ret, startDate, endDate, interval, notice, event>>

engineVars == <<pc, args, ret>>

uiVars == <<startDate, endDate, interval, notice, event>>

-----------------------------------------------------------------------------
(* Bounds of the model. *)

\* number of consecutive days in each window of sample dates
WindowLen == 3

\* longest date range handed to makeBucketNames
MaxRange == 4

\* longest bucketNames list handed to bucketTransactions
MaxBuckets == 3

\* longest transaction list handed to bucketTransactions
MaxTxs == 2

\* most lines (transaction headers, postings and comments) of a ledger
MaxLedgerLines == 5

\* most days that carry an entry in a sparse change map
MaxSparseDays == 2

\* longest list of account paths handed to removeDuplicateAccounts
MaxPaths == 4

\* longest bucketNames list handed to the chart series builders
MaxChartBuckets == 2

\* longest allAccounts list handed to the chart series builders
MaxAllAccounts == 2

-----------------------------------------------------------------------------
(* Strings. *)

DigitChars == <<"0", "1", "2", "3", "4", "5", "6", "7", "8", "9">>

\* UTF-16 code unit of the characters that occur in a bucket key
CodeUnit(c) ==
  CASE c = "." -> 46
    [] c = "0" -> 48 [] c = "1" -> 49 [] c = "2" -> 50 [] c = "3" -> 51
    [] c = "4" -> 52 [] c = "5" -> 53 [] c = "6" -> 54 [] c = "7" -> 55
    [] c = "8" -> 56 [] c = "9" -> 57
    [] c = ":" -> 58
    [] OTHER -> 65

RECURSIVE NumberToString(_)
\* Number.prototype.toString / template interpolation of a non-negative integer
NumberToString(n) ==
  IF n < 10 THEN <<DigitChars[n + 1]>>
  ELSE NumberToString(n \div 10) \o <<DigitChars[(n % 10) + 1]>>

RECURSIVE PadStart(_, _, _)
\* String.prototype.padStart(targetLength, padString) for a one-character pad
PadStart(s, targetLength, padChar) ==
  IF Len(s) >= targetLength THEN s
  ELSE PadStart(<<padChar>> \o s, targetLength, padChar)

RECURSIVE StringGreater(_, _)
\* a > b on strings: lexicographic order of the code units
StringGreater(a, b) ==
  IF a = <<>> THEN FALSE
  ELSE IF b = <<>> THEN TRUE
  ELSE IF CodeUnit(Head(a)) # CodeUnit(Head(b))
       THEN CodeUnit(Head(a)) > CodeUnit(Head(b))
  ELSE StringGreater(Tail(a), Tail(b))

\* String.prototype.startsWith
StartsWith(s, prefix) ==
  /\ Len(prefix) <= Len(s)
  /\ SubSeq(s, 1, Len(prefix)) = prefix

-----------------------------------------------------------------------------
(* Moments. *)

IsLeapYear(y) == (y % 4 = 0 /\ y % 100 # 0) \/ y % 400 = 0

DaysInYear(y) == IF IsLeapYear(y) THEN 366 ELSE 365

Moment(y, d) == [year |-> y, dayOfYear |-> d]

IsBefore(a, b) ==
  \/ a.year < b.year
  \/ a.year = b.year /\ a.dayOfYear < b.dayOfYear

IsAfter(a, b) == IsBefore(b, a)

IsSameOrBefore(a, b) == ~IsBefore(b, a)

RECURSIVE AddDays(_, _)
\* moment.add(n, 'day')
AddDays(m, n) ==
  IF n = 0 THEN m
  ELSE IF m.dayOfYear < DaysInYear(m.year)
       THEN AddDays(Moment(m.year, m.dayOfYear + 1), n - 1)
  ELSE AddDays(Moment(m.year + 1, 1), n - 1)

RECURSIVE SubtractDays(_, _)
\* moment.subtract(n, 'days')
SubtractDays(m, n) ==
  IF n = 0 THEN m
  ELSE IF m.dayOfYear > 1
       THEN SubtractDays(Moment(m.year, m.dayOfYear - 1), n - 1)
  ELSE SubtractDays(Moment(m.year - 1, DaysInYear(m.year - 1)), n - 1)

\* `${m.year()}.${m.dayOfYear().toString().padStart(3, '0')}`
TravellerKey(m) ==
  NumberToString(m.year) \o <<".">> \o PadStart(NumberToString(m.dayOfYear), 3, "0")

-----------------------------------------------------------------------------
(* Sample inputs. *)

\* WindowLen consecutive days starting at day d of year y
Window(y, d) == {AddDays(Moment(y, d), i) : i \in 0 .. (WindowLen - 1)}

\* the end of a leap year, a year end where the year gains a digit, and the
\* places where the day of year gains a digit
DateSamples ==
  Window(996, 365) \cup Window(999, 364) \cup Window(999, 9) \cup Window(999, 99)

\* the days around the end of a leap year and around a year end where the year
\* gains a digit
YearEndSamples ==
  {Moment(996, 365), Moment(996, 366), Moment(997, 1),
   Moment(999, 364), Moment(999, 365), Moment(1000, 1)}

\* account paths: a parent, its child, a name that merely has the parent as a
\* string prefix, and an unrelated account
Acct_A == <<"A">>

Acct_A_B == <<"A", ":", "B">>

Acct_AB == <<"A", "B">>

Acct_L == <<"L">>

Amounts == {-3, 10}

\* the maps from a subset of S to T
PartialMaps(S, T) == UNION {[D -> T] : D \in SUBSET S}

Range(s) == {s[i] : i \in 1 .. Len(s)}

\* the sequences over S of length at most n
SeqsUpTo(S, n) == UNION {[1 .. k -> S] : k \in 0 .. n}

\* the chronologically sorted lists of at most n distinct dates of S
SortedDateLists(S, n) ==
  {s \in SeqsUpTo(S, n) : \A i \in 1 .. (Len(s) - 1) : IsBefore(s[i], s[i + 1])}

\* bucketNames.map over a list of dates
KeysOf(dates) == [i \in 1 .. Len(dates) |-> TravellerKey(dates[i])]

-----------------------------------------------------------------------------
(* makeBucketNames *)

\* a slip: currentDate is the caller's object itself
CloneMoment_Alias(heap, src, dst) == [ref |-> src, heap |-> heap]

\* startDate.clone(): currentDate is a fresh object holding the same date
CloneMoment(heap, src, dst) ==
  [ref |-> dst, heap |-> [heap EXCEPT ![dst] = heap[src]]]

RECURSIVE BucketNamesLoop(_, _, _, _)
BucketNamesLoop(heap, currentDate, end, names) ==
  IF IsSameOrBefore(heap[currentDate], end)
  THEN BucketNamesLoop([heap EXCEPT ![currentDate] = AddDays(@, 1)],
                       currentDate, end,
                       Append(names, TravellerKey(heap[currentDate])))
  ELSE [names |-> names, heap |-> heap]

\* the names returned, and the caller's startDate object after the call
makeBucketNames(start, end) ==
  LET cloned == CloneMoment([startDate |-> start, currentDate |-> start],
                            "startDate", "currentDate")
      run == BucketNamesLoop(cloned.heap, cloned.ref, end, <<>>)
  IN [names |-> run.names, startDate |-> run.heap["startDate"]]

-----------------------------------------------------------------------------
(* bucketTransactions *)

\* the value of bucketNames[0] on an empty array; never a string of the program
Undefined == <<"undefined">>

\* JavaScript array indexing, 0-based
ArrayAt(arr, i) == IF i + 1 \in 1 .. Len(arr) THEN arr[i + 1] ELSE Undefined

\* getWithDefault(map, key, defaultValue): the map after the call; the value
\* returned by the call is the one stored under key
GetWithDefault(map, key, defaultValue) ==
  IF key \in DOMAIN map THEN map
  ELSE [k \in DOMAIN map \cup {key} |-> IF k = key THEN defaultValue ELSE map[k]]

RECURSIVE TargetBucketLoop(_, _, _, _)
\* for (const bucketName of bucketNames) { if (bucketName > tx) break; ... }
TargetBucketLoop(bucketNames, i, targetBucket, txTravellerDate) ==
  IF i > Len(bucketNames) THEN targetBucket
  ELSE IF StringGreater(bucketNames[i], txTravellerDate) THEN targetBucket
  ELSE TargetBucketLoop(bucketNames, i + 1, bucketNames[i], txTravellerDate)

TargetBucket(bucketNames, tx) ==
  TargetBucketLoop(bucketNames, 1, ArrayAt(bucketNames, 0), TravellerKey(tx.date))

\* getWithDefault(buckets, targetBucket, []).push(tx)
PushTx(buckets, targetBucket, tx) ==
  LET withKey == GetWithDefault(buckets, targetBucket, <<>>)
  IN [withKey EXCEPT ![targetBucket] = Append(@, tx)]

RECURSIVE BucketTxsLoop(_, _, _, _)
BucketTxsLoop(buckets, bucketNames, txs, i) ==
  IF i > Len(txs) THEN buckets
  ELSE BucketTxsLoop(PushTx(buckets, TargetBucket(bucketNames, txs[i]), txs[i]),
                     bucketNames, txs, i + 1)

bucketTransactions(bucketNames, txs) ==
  BucketTxsLoop([name \in Range(bucketNames) |-> <<>>], bucketNames, txs, 1)

-----------------------------------------------------------------------------
(* makeDailyAccountBalanceChangeMap *)

\* Map.prototype.get(key) || 0
GetOrZero(map, key) == IF key \in DOMAIN map THEN map[key] ELSE 0

\* 'account' in line
IsAccountLine(line) == "account" \in DOMAIN line

RECURSIVE LinesLoop(_, _, _)
\* tx.value.expenselines.forEach: push line.amount on the list of the account
LinesLoop(accounts, lines, j) ==
  IF j > Len(lines) THEN accounts
  ELSE IF ~IsAccountLine(lines[j]) THEN LinesLoop(accounts, lines, j + 1)
  ELSE LET withKey == GetWithDefault(accounts, lines[j].dealiasedAccount, <<>>)
       IN LinesLoop([withKey EXCEPT ![lines[j].dealiasedAccount] =
                                        Append(@, lines[j].amount)],
                    lines, j + 1)

RECURSIVE TxDateAccountLoop(_, _, _)
\* transactions.forEach: the map from day to account to list of changes
TxDateAccountLoop(txDateAccountMap, transactions, i) ==
  IF i > Len(transactions) THEN txDateAccountMap
  ELSE LET normalizedDate == TravellerKey(transactions[i].date)
           withKey == GetWithDefault(txDateAccountMap, normalizedDate, << >>)
       IN TxDateAccountLoop(
            [withKey EXCEPT ![normalizedDate] =
                              LinesLoop(@, transactions[i].expenselines, 1)],
            transactions, i + 1)

\* a slip: the last change replaces the sum
ReduceSum_Last(changes, prev) ==
  IF changes = <<>> THEN prev ELSE changes[Len(changes)]

RECURSIVE ReduceSum(_, _)
\* changes.reduce((prev, curr) => prev + curr, 0)
ReduceSum(changes, prev) ==
  IF changes = <<>> THEN prev ELSE ReduceSum(Tail(changes), prev + Head(changes))

makeDailyAccountBalanceChangeMap(transactions) ==
  LET txDateAccountMap == TxDateAccountLoop(<< >>, transactions, 1)
  IN [txDate \in DOMAIN txDateAccountMap |->
        [account \in DOMAIN txDateAccountMap[txDate] |->
           ReduceSum(txDateAccountMap[txDate][account], 0)]]

-----------------------------------------------------------------------------
(* makeDailyBalanceMap *)

\* accounts.forEach((accountName) => previousData.set(accountName, 0))
ZeroBalances(accounts) == [accountName \in Range(accounts) |-> 0]

\* a slip: the balance of the day before is not carried over
RollDay_NoCarry(accounts, previousData, innerInputMap) ==
  [accountName \in Range(accounts) |-> GetOrZero(innerInputMap, accountName)]

\* the inner result map of a day that has an entry in the input
RollDay(accounts, previousData, innerInputMap) ==
  [accountName \in Range(accounts) |->
     GetOrZero(previousData, accountName) + GetOrZero(innerInputMap, accountName)]

RECURSIVE DailyBalanceLoop(_, _, _, _, _, _)
DailyBalanceLoop(result, previousData, currentDate, accounts, input, lastDate) ==
  IF ~IsSameOrBefore(currentDate, lastDate) THEN result
  ELSE LET currentDateStr == TravellerKey(currentDate)
           data == IF currentDateStr \in DOMAIN input
                   THEN RollDay(accounts, previousData, input[currentDateStr])
                   ELSE previousData
       IN DailyBalanceLoop(
            [k \in DOMAIN result \cup {currentDateStr} |->
               IF k = currentDateStr THEN data ELSE result[k]],
            data, AddDays(currentDate, 1), accounts, input, lastDate)

makeDailyBalanceMap(accounts, input, firstDate, lastDate) ==
  DailyBalanceLoop(<< >>, ZeroBalances(accounts), firstDate, accounts, input,
                   lastDate)

-----------------------------------------------------------------------------
(* Chart series. *)

\* a slip: only accounts under both prefixes count
CountsTowardNetWorth_Both(acct, settings) ==
  /\ StartsWith(acct, settings.assetAccountsPrefix)
  /\ StartsWith(acct, settings.liabilityAccountsPrefix)

\* acct.startsWith(assetAccountsPrefix) || acct.startsWith(liabilityAccountsPrefix)
CountsTowardNetWorth(acct, settings) ==
  \/ StartsWith(acct, settings.assetAccountsPrefix)
  \/ StartsWith(acct, settings.liabilityAccountsPrefix)

RECURSIVE ReduceEntries(_, _, _, _)
\* [...balanceData.entries()].reduce(...): add the balances of the accounts
\* that start with one of the two prefixes
ReduceEntries(balanceData, rest, settings, accum) ==
  IF rest = {} THEN accum
  ELSE LET acct == CHOOSE a \in rest : TRUE
           bal == balanceData[acct]
       IN ReduceEntries(balanceData, rest \ {acct}, settings,
            IF CountsTowardNetWorth(acct, settings) THEN accum + bal ELSE accum)

calcNetWorth(balanceData, settings) ==
  ReduceEntries(balanceData, DOMAIN balanceData, settings, 0)

makeNetWorthData(dailyAccountBalanceMap, bucketNames, settings) ==
  [i \in 1 .. Len(bucketNames) |->
     [x |-> bucketNames[i],
      y |-> IF bucketNames[i] \in DOMAIN dailyAccountBalanceMap
            THEN calcNetWorth(dailyAccountBalanceMap[bucketNames[i]], settings)
            ELSE 0]]

\* accounts.filter((candidate) => candidate.startsWith(account + ':'))
findChildAccounts(account, accounts) ==
  SelectSeq(accounts, LAMBDA candidate : StartsWith(candidate, account \o <<":">>))

\* accountBalances?.get(currentAccount) || 0
BalanceOrZero(dailyAccountBalanceMap, bucket, currentAccount) ==
  IF bucket \in DOMAIN dailyAccountBalanceMap
  THEN GetOrZero(dailyAccountBalanceMap[bucket], currentAccount)
  ELSE 0

RECURSIVE ReduceBalance(_, _, _, _)
\* accounts.reduce((prev, currentAccount) => (balance || 0) + prev, 0)
ReduceBalance(dailyAccountBalanceMap, bucket, accounts, prev) ==
  IF accounts = <<>> THEN prev
  ELSE ReduceBalance(dailyAccountBalanceMap, bucket, Tail(accounts),
         BalanceOrZero(dailyAccountBalanceMap, bucket, Head(accounts)) + prev)

makeBalanceData(dailyAccountBalanceMap, bucketNames, account, allAccounts) ==
  LET accounts == findChildAccounts(account, allAccounts) \o <<account>>
  IN [i \in 1 .. Len(bucketNames) |->
        [x |-> bucketNames[i],
         y |-> ReduceBalance(dailyAccountBalanceMap, bucketNames[i], accounts, 0)]]

\* a slip: every bucket is compared with bucketBefore
PrevBucket_AlwaysBefore(bucketBefore, bucketNames, i) == bucketBefore

\* i === 0 ? bucketBefore : bucketNames[i - 1], with i counted from 1
PrevBucket(bucketBefore, bucketNames, i) ==
  IF i = 1 THEN bucketBefore ELSE bucketNames[i - 1]

RECURSIVE ReduceDelta(_, _, _, _, _)
\* accounts.reduce((prev, currentAccount) => b2 - b1 + prev, 0)
ReduceDelta(dailyAccountBalanceMap, bucket, prevBucket, accounts, prev) ==
  IF accounts = <<>> THEN prev
  ELSE LET b1 == BalanceOrZero(dailyAccountBalanceMap, prevBucket, Head(accounts))
           b2 == BalanceOrZero(dailyAccountBalanceMap, bucket, Head(accounts))
       IN ReduceDelta(dailyAccountBalanceMap, bucket, prevBucket, Tail(accounts),
                      b2 - b1 + prev)

makeDeltaData(dailyAccountBalanceMap, bucketBefore, bucketNames, account, allAccounts) ==
  LET accounts == findChildAccounts(account, allAccounts) \o <<account>>
  IN [i \in 1 .. Len(bucketNames) |->
        [x |-> bucketNames[i],
         y |-> ReduceDelta(dailyAccountBalanceMap, bucketNames[i],
                           PrevBucket(bucketBefore, bucketNames, i), accounts, 0)]]

-----------------------------------------------------------------------------
(* removeDuplicateAccounts *)

RECURSIVE SplitLoop(_, _, _, _)
\* String.prototype.split(separator) for a one-character separator
SplitLoop(s, separator, current, segments) ==
  IF s = <<>> THEN Append(segments, current)
  ELSE IF Head(s) = separator
       THEN SplitLoop(Tail(s), separator, <<>>, Append(segments, current))
  ELSE SplitLoop(Tail(s), separator, Append(current, Head(s)), segments)

Split(s, separator) == SplitLoop(s, separator, <<>>, <<>>)

\* [path, label].join(':')
JoinPath(path, label) == path \o <<":">> \o label

\* the truthiness of an optional string: undefined and '' are falsy
Truthy(path) == path # Undefined /\ path # <<>>

\* parentNode.children.find(({ label }) => label === segment): its position,
\* 0 when there is none
FindChild(children, segment) ==
  IF \E j \in 1 .. Len(children) : children[j].label = segment
  THEN CHOOSE j \in 1 .. Len(children) :
         /\ children[j].label = segment
         /\ \A k \in 1 .. (j - 1) : children[k].label # segment
  ELSE 0

RECURSIVE InsertSegments(_, _, _)
\* path.split(':').forEach((segment, i, segments) => ...), from segment i on,
\* below the node whose children are given: the children afterwards
InsertSegments(children, segments, i) ==
  IF i > Len(segments) THEN children
  ELSE LET segment == segments[i]
           lastSegment == Len(segments) = i
           j == FindChild(children, segment)
           node == IF j = 0
                   THEN [exists |-> lastSegment, label |-> segment, children |-> <<>>]
                   ELSE IF lastSegment THEN [children[j] EXCEPT !.exists = TRUE]
                   ELSE children[j]
           below == [node EXCEPT !.children = InsertSegments(@, segments, i + 1)]
       IN IF j = 0 THEN Append(children, below)
          ELSE [children EXCEPT ![j] = below]

RECURSIVE BuildTree(_, _, _)
\* input.forEach((path) => ...)
BuildTree(tree, input, i) ==
  IF i > Len(input) THEN tree
  ELSE BuildTree([children |-> InsertSegments(tree.children, Split(input[i], ":"), 1)],
                 input, i + 1)

RECURSIVE renderTree(_, _, _)
RECURSIVE RenderChildren(_, _, _, _)
\* node.children.forEach((child) => renderTree(output, child, newPath))
RenderChildren(output, children, i, newPath) ==
  IF i > Len(children) THEN output
  ELSE RenderChildren(renderTree(output, children[i], newPath), children, i + 1,
                      newPath)

\* the output list after rendering node
renderTree(output, node, path) ==
  LET hasLabel == "label" \in DOMAIN node
      newPath == IF ~hasLabel THEN Undefined
                 ELSE IF Truthy(path) THEN JoinPath(path, node.label)
                 ELSE node.label
      pushed == IF hasLabel /\ Len(node.children) # 1 /\ node.exists
                THEN Append(output, newPath)
                ELSE output
  IN RenderChildren(pushed, node.children, 1, newPath)

removeDuplicateAccounts(input) ==
  renderTree(<<>>, BuildTree([children |-> <<>>], input, 1), Undefined)

-----------------------------------------------------------------------------
(* Specification of the engine: every function is called on inputs drawn   *)
(* from the sample sets and returns.                                       *)

Idle == [op |-> "none"]

Init ==
  /\ pc = "idle"
  /\ args = Idle
  /\ ret = Idle
  /\ startDate = Moment(999, 1)
  /\ endDate = Moment(999, 1)
  /\ interval = "day"
  /\ notice = "none"
  /\ event = "none"

CallMakeBucketNames ==
  /\ pc = "idle"
  /\ \E start \in DateSamples :
       \E end \in {AddDays(start, n) : n \in 0 .. (MaxRange - 1)}
                    \cup {SubtractDays(start, n) : n \in 1 .. 2} :
         /\ args' = [startDate |-> start, endDate |-> end]
         /\ ret' = makeBucketNames(start, end)
  /\ pc' = "makeBucketNames"
  /\ UNCHANGED uiVars

CallBucketTransactions ==
  /\ pc = "idle"
  /\ \E dates \in SortedDateLists(YearEndSamples, MaxBuckets) :
       \E txDates \in SeqsUpTo(YearEndSamples, MaxTxs) :
         LET txs == [i \in 1 .. Len(txDates) |->
                       [date |-> txDates[i], expenselines |-> <<>>]]
         IN /\ args' = [bucketNames |-> KeysOf(dates), txs |-> txs]
            /\ ret' = bucketTransactions(KeysOf(dates), txs)
  /\ pc' = "bucketTransactions"
  /\ UNCHANGED uiVars

\* the lines a transaction may carry: comments and account lines
LineSamples ==
  {[comment |-> "note"],
   [account |-> Acct_A, dealiasedAccount |-> Acct_A, amount |-> 10],
   [account |-> Acct_A, dealiasedAccount |-> Acct_A, amount |-> -3],
   [account |-> Acct_L, dealiasedAccount |-> Acct_L, amount |-> 10]}

\* the lines of a ledger: the header of a transaction, which dates it, or a
\* line of the transaction above it
LedgerLines ==
  {[header |-> d] : d \in {Moment(999, 365), Moment(1000, 1)}} \cup LineSamples

RECURSIVE TransactionsOf(_, _, _)
\* the transactions of a ledger, as the parser hands them over
TransactionsOf(ledger, i, transactions) ==
  IF i > Len(ledger) THEN transactions
  ELSE IF "header" \in DOMAIN ledger[i]
       THEN TransactionsOf(ledger, i + 1,
              Append(transactions, [date |-> ledger[i].header, expenselines |-> <<>>]))
  ELSE TransactionsOf(ledger, i + 1,
         [transactions EXCEPT ![Len(transactions)].expenselines =
                                 Append(@, ledger[i])])

\* the ledgers of at most MaxLedgerLines lines, each empty or led by a header
Ledgers ==
  {l \in SeqsUpTo(LedgerLines, MaxLedgerLines) :
     l = <<>> \/ "header" \in DOMAIN l[1]}

CallMakeDailyAccountBalanceChangeMap ==
  /\ pc = "idle"
  /\ \E ledger \in Ledgers :
       LET transactions == TransactionsOf(ledger, 1, <<>>)
       IN /\ args' = [transactions |-> transactions]
          /\ ret' = makeDailyAccountBalanceChangeMap(transactions)
  /\ pc' = "makeDailyAccountBalanceChangeMap"
  /\ UNCHANGED uiVars

\* the days around the year end at which the year gains a digit
RollDays == {Moment(999, 364), Moment(999, 365), Moment(1000, 1)}

\* the changes of one day: any of the accounts may be missing
DayChanges ==
  {m \in PartialMaps({Acct_A, Acct_L}, Amounts) :
     Acct_L \in DOMAIN m => m[Acct_L] = 10}

\* the sparse change maps with entries on at most MaxSparseDays days of S
SparseMaps(S) ==
  UNION {[{TravellerKey(d) : d \in D} -> DayChanges] :
           D \in {E \in SUBSET S : Cardinality(E) <= MaxSparseDays}}

\* account lists: empty, with an account the changes never name left out, and
\* with a repeated account
TrackedSamples ==
  {<<>>, <<Acct_A>>, <<Acct_A, Acct_L>>, <<Acct_L, Acct_A, Acct_L>>}

CallMakeDailyBalanceMap ==
  /\ pc = "idle"
  /\ \E accounts \in TrackedSamples :
       \E input \in SparseMaps(RollDays) :
         \E firstDate \in RollDays, lastDate \in RollDays :
           /\ args' = [accounts |-> accounts, input |-> input,
                       firstDate |-> firstDate, lastDate |-> lastDate]
           /\ ret' = makeDailyBalanceMap(accounts, input, firstDate, lastDate)
  /\ pc' = "makeDailyBalanceMap"
  /\ UNCHANGED uiVars

\* the day before the charted range and the two days charted
ChartDays == <<Moment(999, 364), Moment(999, 365), Moment(1000, 1)>>

ChartKey(i) == TravellerKey(ChartDays[i])

\* a balance that tells the day and the account apart in every sum
SampleBalance(i, a) ==
  (CASE i = 1 -> 1 [] i = 2 -> 20 [] OTHER -> 300) *
  (CASE a = Acct_A -> 1 [] a = Acct_A_B -> 2 [] a = Acct_AB -> 4 [] OTHER -> -8)

\* dense maps that hold the days of Days, any of which may be missing, with
\* the accounts of Always and any of the accounts of Maybe
DenseSamples(Days, Always, Maybe) ==
  {[k \in {ChartKey(i) : i \in I} |->
      [a \in S \cup Always |->
         SampleBalance(CHOOSE i \in I : ChartKey(i) = k, a)]] :
     I \in SUBSET Days, S \in SUBSET Maybe}

ChartBucketLists == SeqsUpTo({ChartKey(2), ChartKey(3)}, MaxChartBuckets)

PrefixSamples == {<<>>, <<"A">>, <<"A", ":">>, <<"L">>}

CallMakeNetWorthData ==
  /\ pc = "idle"
  /\ \E dense \in DenseSamples({2, 3}, {Acct_L}, {Acct_A, Acct_A_B, Acct_AB}),
        bucketNames \in ChartBucketLists :
       \E asset \in PrefixSamples, liability \in PrefixSamples :
         LET settings == [assetAccountsPrefix |-> asset,
                          liabilityAccountsPrefix |-> liability]
         IN /\ args' = [dailyAccountBalanceMap |-> dense,
                        bucketNames |-> bucketNames, settings |-> settings]
            /\ ret' = makeNetWorthData(dense, bucketNames, settings)
  /\ pc' = "makeNetWorthData"
  /\ UNCHANGED uiVars

CallMakeBalanceData ==
  /\ pc = "idle"
  /\ \E dense \in DenseSamples({2, 3}, {Acct_L}, {Acct_A, Acct_A_B, Acct_AB}),
        bucketNames \in ChartBucketLists :
       \E account \in {Acct_A, Acct_A_B} :
         \E allAccounts \in SeqsUpTo({Acct_A, Acct_A_B, Acct_AB}, MaxAllAccounts) :
           /\ args' = [dailyAccountBalanceMap |-> dense, bucketNames |-> bucketNames,
                       account |-> account, allAccounts |-> allAccounts]
           /\ ret' = makeBalanceData(dense, bucketNames, account, allAccounts)
  /\ pc' = "makeBalanceData"
  /\ UNCHANGED uiVars

CallMakeDeltaData ==
  /\ pc = "idle"
  /\ \E dense \in DenseSamples({1, 2, 3}, {Acct_AB}, {Acct_A, Acct_A_B}),
        bucketNames \in ChartBucketLists :
       \E bucketBefore \in {ChartKey(1), ChartKey(2)} :
         \E allAccounts \in SeqsUpTo({Acct_A, Acct_A_B, Acct_AB}, MaxAllAccounts) :
           /\ args' = [dailyAccountBalanceMap |-> dense, bucketBefore |-> bucketBefore,
                       bucketNames |-> bucketNames, account |-> Acct_A,
                       allAccounts |-> allAccounts]
           /\ ret' = makeDeltaData(dense, bucketBefore, bucketNames, Acct_A,
                                   allAccounts)
  /\ pc' = "makeDeltaData"
  /\ UNCHANGED uiVars

\* account paths of up to three segments, with a label of two characters and
\* with an empty first segment
PathSamples ==
  {<<":", "C">>, <<"L">>, <<"L", ":", "C">>, <<"L", ":", "C", ":", "H">>,
   <<"L", ":", "C", ":", "I">>, <<"L", "i">>, <<"L", "i", ":", "C">>}

CallRemoveDuplicateAccounts ==
  /\ pc = "idle"
  /\ \E input \in SeqsUpTo(PathSamples, MaxPaths) :
       /\ args' = [input |-> input]
       /\ ret' = removeDuplicateAccounts(input)
  /\ pc' = "removeDuplicateAccounts"
  /\ UNCHANGED uiVars

Return ==
  /\ pc # "idle"
  /\ pc' = "idle"
  /\ args' = Idle
  /\ ret' = Idle
  /\ UNCHANGED uiVars

Next ==
  \/ CallMakeBucketNames
  \/ CallBucketTransactions
  \/ CallMakeDailyAccountBalanceChangeMap
  \/ CallMakeDailyBalanceMap
  \/ CallMakeNetWorthData
  \/ CallMakeBalanceData
  \/ CallMakeDeltaData
  \/ CallRemoveDuplicateAccounts
  \/ Return

Spec == Init /\ [][Next]_vars

-----------------------------------------------------------------------------
(* DateRangeSelector *)

RECURSIVE SetDayOfYear(_, _)
\* window.moment().dayOfYear(n) in the year of the clock: a day number outside
\* the year runs over into the neighbouring years
SetDayOfYear(year, n) ==
  IF n < 1 THEN SetDayOfYear(year - 1, n + DaysInYear(year - 1))
  ELSE IF n > DaysInYear(year) THEN SetDayOfYear(year + 1, n - DaysInYear(year))
  ELSE Moment(year, n)

\* moment.year(y): month and day of month are kept, 29 February becomes
\* 28 February in a year without it
SetYear(m, y) ==
  IF IsLeapYear(m.year) = IsLeapYear(y) THEN Moment(y, m.dayOfYear)
  ELSE IF IsLeapYear(m.year)
       THEN Moment(y, IF m.dayOfYear >= 60 THEN m.dayOfYear - 1 ELSE m.dayOfYear)
  ELSE Moment(y, IF m.dayOfYear >= 60 THEN m.dayOfYear + 1 ELSE m.dayOfYear)

\* window.moment().dayOfYear(Number(e.target.value)).year(year)
NewDate(nowYear, value, year) == SetYear(SetDayOfYear(nowYear, value), year)

\* const maxDays = interval === 'day' ? 15 : 15
MaxDaysOf(i) == IF i = "day" THEN 15 ELSE 15

\* the condition under which the validators move a date
ExceedsWindow(i, start, end) == end.dayOfYear - start.dayOfYear > MaxDaysOf(i)

\* validateAndUpdateStartDate: the start date and the notice afterwards
validateAndUpdateStartDate(i, start, end) ==
  IF ExceedsWindow(i, start, end)
  THEN [startDate |-> SubtractDays(end, MaxDaysOf(i)), notice |-> "Adjusting start date"]
  ELSE [startDate |-> start, notice |-> "none"]

\* validateAndUpdateEndDate: the end date and the notice afterwards
validateAndUpdateEndDate(i, start, end) ==
  IF ExceedsWindow(i, start, end)
  THEN [endDate |-> AddDays(start, MaxDaysOf(i)), notice |-> "Adjusting end date"]
  ELSE [endDate |-> end, notice |-> "none"]

\* the years the clock may show and the day numbers typed into the pickers
NowYears == {996, 999}

DayInputs == {0, 1, 5, 20, 59, 60, 340, 355, 365, 366, 400}

UIDates ==
  {Moment(999, 340), Moment(999, 350), Moment(999, 360), Moment(1000, 5),
   Moment(1000, 100)}

InitUI ==
  /\ pc = "idle"
  /\ args = Idle
  /\ ret = Idle
  /\ startDate \in UIDates
  /\ endDate \in UIDates
  /\ IsSameOrBefore(startDate, endDate)
  /\ interval = "day"
  /\ notice = "none"
  /\ event = "none"

\* the action of the Daily button
ClickDaily ==
  LET v == validateAndUpdateEndDate("day", startDate, endDate)
  IN /\ interval' = "day"
     /\ endDate' = v.endDate
     /\ notice' = v.notice
     /\ event' = "daily"
     /\ UNCHANGED <<startDate, engineVars>>

\* onChange of the start picker
EditStartDate ==
  \E nowYear \in NowYears, value \in DayInputs :
    LET newDate == NewDate(nowYear, value, startDate.year)
        v == validateAndUpdateEndDate(interval, newDate, endDate)
    IN /\ startDate' = newDate
       /\ endDate' = IF IsAfter(newDate, endDate) THEN newDate ELSE v.endDate
       /\ notice' = IF IsAfter(newDate, endDate) THEN "none" ELSE v.notice
       /\ event' = "start"
       /\ UNCHANGED <<interval, engineVars>>

\* onChange of the end picker
EditEndDate ==
  \E nowYear \in NowYears, value \in DayInputs :
    LET newDate == NewDate(nowYear, value, endDate.year)
        v == validateAndUpdateStartDate(interval, startDate, newDate)
    IN /\ endDate' = newDate
       /\ startDate' = IF IsBefore(newDate, startDate) THEN newDate ELSE v.startDate
       /\ notice' = IF IsBefore(newDate, startDate) THEN "none" ELSE v.notice
       /\ event' = "end"
       /\ UNCHANGED <<interval, engineVars>>

NextUI ==
  \/ ClickDaily
  \/ EditStartDate
  \/ EditEndDate

SpecUI == InitUI /\ [][NextUI]_vars

-----------------------------------------------------------------------------
(* Reading a bucket key back, independently of the way it is written. *)

DigitValue(c) == CHOOSE d \in 0 .. 9 : DigitChars[d + 1] = c

IsDigit(c) == \E d \in 0 .. 9 : DigitChars[d + 1] = c

RECURSIVE ParseNat(_)
ParseNat(s) ==
  IF s = <<>> THEN 0
  ELSE 10 * ParseNat(SubSeq(s, 1, Len(s) - 1)) + DigitValue(s[Len(s)])

\* key is YEAR.DDD for the date m: the year in decimal, a dot, the day of year
\* in exactly three digits
KeyDenotes(key, m) ==
  /\ Len(key) >= 5
  /\ key[Len(key) - 3] = "."
  /\ \A i \in (1 .. Len(key)) \ {Len(key) - 3} : IsDigit(key[i])
  /\ key[1] # "0" \/ Len(key) = 5
  /\ ParseNat(SubSeq(key, 1, Len(key) - 4)) = m.year
  /\ ParseNat(SubSeq(key, Len(key) - 2, Len(key))) = m.dayOfYear

DateOfKey(key) ==
  Moment(ParseNat(SubSeq(key, 1, Len(key) - 4)),
         ParseNat(SubSeq(key, Len(key) - 2, Len(key))))

\* the number of calendar days from a to b inclusive, 0 when a is after b
RECURSIVE DaysBetween(_, _)
DaysBetween(a, b) ==
  IF IsBefore(b, a) THEN 0
  ELSE 1 + DaysBetween(IF a.dayOfYear < DaysInYear(a.year)
                       THEN Moment(a.year, a.dayOfYear + 1)
                       ELSE Moment(a.year + 1, 1), b)

-----------------------------------------------------------------------------
(* Claims. *)

ExpectedBucket(bucketNames, tx) ==
  LET notAfter == {i \in 1 .. Len(bucketNames) :
                     IsSameOrBefore(DateOfKey(bucketNames[i]), tx.date)}
  IN IF notAfter = {} THEN bucketNames[1]
     ELSE bucketNames[CHOOSE i \in notAfter : \A j \in notAfter : j <= i]

C2_LatestBucketNotAfter ==
  (pc = "bucketTransactions" /\ args.bucketNames # <<>>) =>
    \A name \in Range(args.bucketNames) :
      /\ name \in DOMAIN ret
      /\ ret[name] = SelectSeq(args.txs,
                         LAMBDA tx : ExpectedBucket(args.bucketNames, tx) = name)

\* C9 (as claimed): the key set of the result is exactly the set of the given
\* bucket keys; with an empty bucket list the result is the empty map.
C9_KeysAreBucketNames ==
  pc = "bucketTransactions" => DOMAIN ret = Range(args.bucketNames)

\* the sum of f over the finite set S
RECURSIVE SumOver(_, _)
SumOver(S, f) ==
  IF S = {} THEN 0
  ELSE LET x == CHOOSE y \in S : TRUE IN f[x] + SumOver(S \ {x}, f)

\* the account lines (transaction index, line index) of account a dated on the
\* day that key denotes
LinesOf(transactions, key, a) ==
  {p \in UNION {{<<i, j>> : j \in 1 .. Len(transactions[i].expenselines)} :
                  i \in 1 .. Len(transactions)} :
     /\ KeyDenotes(key, transactions[p[1]].date)
     /\ "account" \in DOMAIN transactions[p[1]].expenselines[p[2]]
     /\ transactions[p[1]].expenselines[p[2]].dealiasedAccount = a}

\* C7: the change map holds, for each day key and account, exactly the sum of
\* the amounts of all account lines of that account in all transactions dated
\* that day; comment lines contribute nothing; a day on which no transaction
\* is dated has no key.
C7_ChangeMapSums ==
  pc = "makeDailyAccountBalanceChangeMap" =>
    LET txs == args.transactions
    IN /\ \A i \in 1 .. Len(txs) : \E key \in DOMAIN ret : KeyDenotes(key, txs[i].date)
       /\ \A key \in DOMAIN ret :
            /\ \E i \in 1 .. Len(txs) : KeyDenotes(key, txs[i].date)
            /\ \A a \in {Acct_A, Acct_L} :
                 LET lines == LinesOf(txs, key, a)
                 IN /\ a \in DOMAIN ret[key] <=> lines # {}
                    /\ a \in DOMAIN ret[key] =>
                         ret[key][a] =
                           SumOver(lines, [p \in lines |->
                                      txs[p[1]].expenselines[p[2]].amount])
            /\ DOMAIN ret[key] \subseteq {Acct_A, Acct_L}

\* two transactions of one day that both move the same account, one of them
\* with a comment line, and another day without transactions
C7_Witness ==
  /\ pc = "makeDailyAccountBalanceChangeMap"
  /\ Len(args.transactions) = 2
  /\ args.transactions[1].date = args.transactions[2].date
  /\ Cardinality(DOMAIN ret) = 1
  /\ \E key \in DOMAIN ret : Acct_A \in DOMAIN ret[key] /\ ret[key][Acct_A] = 7
  /\ \E j \in 1 .. Len(args.transactions[1].expenselines) :
       "comment" \in DOMAIN args.transactions[1].expenselines[j]

\* the balances of the day before the i-th day of the range (i from 1)
DenseBefore(i) ==
  IF i = 1 THEN [a \in Range(args.accounts) |-> 0]
  ELSE ret[CHOOSE k \in DOMAIN ret : KeyDenotes(k, AddDays(args.firstDate, i - 2))]

\* C1: for firstDate <= lastDate the dense map has an entry for every day of
\* the range holding every tracked account; with 0 as the balance of the day
\* before firstDate, a day without sparse entry repeats the balances of the
\* day before and a day with a sparse entry adds the delta of each account
\* (0 when the account is absent from the entry).
C1_ForwardFill ==
  (pc = "makeDailyBalanceMap" /\ IsSameOrBefore(args.firstDate, args.lastDate)) =>
    \A i \in 1 .. DaysBetween(args.firstDate, args.lastDate) :
      LET d == AddDays(args.firstDate, i - 1)
          entries == {k \in DOMAIN args.input : KeyDenotes(k, d)}
      IN /\ \E k \in DOMAIN ret : KeyDenotes(k, d)
         /\ \A k \in DOMAIN ret :
              KeyDenotes(k, d) =>
                /\ DOMAIN ret[k] = Range(args.accounts)
                /\ \A a \in Range(args.accounts) :
                     ret[k][a] = DenseBefore(i)[a] +
                       (IF \E e \in entries : a \in DOMAIN args.input[e]
                        THEN args.input[CHOOSE e \in entries : TRUE][a]
                        ELSE 0)

\* a range over the year end with a sparse entry on its second day only, which
\* changes a tracked account
C1_Witness ==
  /\ pc = "makeDailyBalanceMap"
  /\ args.firstDate = Moment(999, 364)
  /\ args.lastDate = Moment(1000, 1)
  /\ DOMAIN args.input = {TravellerKey(Moment(999, 365))}
  /\ args.accounts = <<Acct_A, Acct_L>>
  /\ args.input[TravellerKey(Moment(999, 365))] = (Acct_A :> 10)
  /\ Cardinality(DOMAIN ret) = 3
  /\ ret[TravellerKey(Moment(999, 364))][Acct_A] = 0
  /\ ret[TravellerKey(Moment(1000, 1))][Acct_A] = 10

\* p is an initial segment of s
IsPrefixOf(p, s) ==
  /\ Len(p) <= Len(s)
  /\ \A i \in 1 .. Len(p) : s[i] = p[i]

\* the balance the dense map records for an account at a bucket, 0 when the
\* bucket or the account is missing
DenseBalance(dense, bucket, a) ==
  IF bucket \in DOMAIN dense /\ a \in DOMAIN dense[bucket] THEN dense[bucket][a]
  ELSE 0

\* C4: the i-th value of makeDeltaData is the difference of the consecutive
\* values that makeBalanceData produces over [bucketBefore] followed by
\* bucketNames.
C4_DeltaIsBalanceDifference ==
  pc = "makeDeltaData" =>
    LET balances == makeBalanceData(args.dailyAccountBalanceMap,
                                    <<args.bucketBefore>> \o args.bucketNames,
                                    args.account, args.allAccounts)
    IN /\ Len(ret) = Len(args.bucketNames)
       /\ \A i \in 1 .. Len(ret) :
            /\ ret[i].x = args.bucketNames[i]
            /\ ret[i].y = balances[i + 1].y - balances[i].y

\* two buckets after a bucket-before that the dense map holds, for an account
\* with a listed descendant: both deltas are non-zero and differ
C4_Witness ==
  /\ pc = "makeDeltaData"
  /\ args.bucketBefore = ChartKey(1)
  /\ args.bucketNames = <<ChartKey(2), ChartKey(3)>>
  /\ DOMAIN args.dailyAccountBalanceMap = {ChartKey(1), ChartKey(2), ChartKey(3)}
  /\ args.allAccounts = <<Acct_A_B, Acct_AB>>
  /\ DOMAIN args.dailyAccountBalanceMap[ChartKey(2)] = {Acct_A, Acct_A_B, Acct_AB}
  /\ ret[1].y = (20 + 40) - (1 + 2) /\ ret[2].y = (300 + 600) - (20 + 40)

\* C5 (as claimed): the value of makeBalanceData for a bucket is the dense
\* balance of the target plus the dense balance of each account of
\* allAccounts, counted once per account, whose path is the target followed
\* by ':' and anything; a mere string prefix never contributes.
IsDescendant(a, target) ==
  /\ Len(a) > Len(target)
  /\ SubSeq(a, 1, Len(target)) = target
  /\ a[Len(target) + 1] = ":"

C5_BalanceCountsEachAccountOnce ==
  pc = "makeBalanceData" =>
    LET descendants == {a \in Range(args.allAccounts) : IsDescendant(a, args.account)}
    IN /\ Len(ret) = Len(args.bucketNames)
       /\ \A i \in 1 .. Len(ret) :
            ret[i].y =
              DenseBalance(args.dailyAccountBalanceMap, args.bucketNames[i], args.account)
              + SumOver(descendants,
                        [a \in descendants |->
                           DenseBalance(args.dailyAccountBalanceMap,
                                        args.bucketNames[i], a)])

\* C6: makeNetWorthData returns one point per bucket, in bucket order, whose y
\* is the sum of the dense balances at the bucket of exactly the accounts that
\* start with the asset prefix or the liability prefix, each counted once, and
\* 0 when the bucket is absent from the dense map.
C6_NetWorth ==
  pc = "makeNetWorthData" =>
    /\ Len(ret) = Len(args.bucketNames)
    /\ \A i \in 1 .. Len(ret) :
         LET bucket == args.bucketNames[i]
             dense == args.dailyAccountBalanceMap
             counted == IF bucket \in DOMAIN dense
                        THEN {a \in DOMAIN dense[bucket] :
                                \/ IsPrefixOf(args.settings.assetAccountsPrefix, a)
                                \/ IsPrefixOf(args.settings.liabilityAccountsPrefix, a)}
                        ELSE {}
         IN /\ ret[i].x = bucket
            /\ ret[i].y = SumOver(counted, [a \in counted |-> dense[bucket][a]])
            /\ bucket \notin DOMAIN dense => ret[i].y = 0

\* a bucket that the dense map holds and one it does not; an account matches
\* both prefixes, one matches a single prefix and one matches none
C6_Witness ==
  /\ pc = "makeNetWorthData"
  /\ args.settings = [assetAccountsPrefix |-> <<"A">>,
                      liabilityAccountsPrefix |-> <<"A", ":">>]
  /\ args.bucketNames = <<ChartKey(2), ChartKey(3)>>
  /\ DOMAIN args.dailyAccountBalanceMap = {ChartKey(2)}
  /\ DOMAIN args.dailyAccountBalanceMap[ChartKey(2)] =
       {Acct_A, Acct_A_B, Acct_AB, Acct_L}
  /\ ret[1].y = 20 + 40 + 80 /\ ret[2].y = 0

\* the segment of the path q that begins at position from
RECURSIVE SegmentAt(_, _)
SegmentAt(q, from) ==
  IF from > Len(q) \/ q[from] = ":" THEN <<>>
  ELSE <<q[from]>> \o SegmentAt(q, from + 1)

\* the distinct child segments of the trie node of path p
ChildSegments(input, p) ==
  {SegmentAt(q, Len(p) + 2) : q \in {r \in Range(input) : IsDescendant(r, p)}}

\* the trie nodes on the way to path p, p included, as paths
NodesTo(p) ==
  {SubSeq(p, 1, k) : k \in {n \in 1 .. Len(p) : n = Len(p) \/ p[n + 1] = ":"}}

\* the position of the first input path that goes through node n
FirstSeen(input, n) ==
  CHOOSE i \in 1 .. Len(input) :
    /\ n \in NodesTo(input[i])
    /\ \A k \in 1 .. (i - 1) : n \notin NodesTo(input[k])

\* the node at which the way to p leaves the way to q
Departure(p, q) ==
  CHOOSE n \in NodesTo(p) \ NodesTo(q) :
    \A m \in NodesTo(p) \ NodesTo(q) : Len(n) <= Len(m)

\* p comes before q in the depth-first pre-order with children in first-seen
\* order
PreOrderBefore(input, p, q) ==
  \/ p \in NodesTo(q) /\ p # q
  \/ /\ p \notin NodesTo(q)
     /\ q \notin NodesTo(p)
     /\ FirstSeen(input, Departure(p, q)) < FirstSeen(input, Departure(q, p))

\* C3: removeDuplicateAccounts returns exactly the depth-first pre-order list
\* (children in first-seen order) of the trie nodes that terminate some input
\* path and whose number of distinct child segments is not 1, each as its
\* full colon-joined path and each exactly once; the list Liabilities,
\* Liabilities:Credit, Liabilities:Credit:Chase, Liabilities:Credit:Citi
\* yields the last three.
C3_RenderedAccounts ==
  pc = "removeDuplicateAccounts" =>
    /\ Range(ret) =
         {p \in Range(args.input) : Cardinality(ChildSegments(args.input, p)) # 1}
    /\ \A i \in 1 .. Len(ret) : \A j \in (i + 1) .. Len(ret) :
         /\ ret[i] # ret[j]
         /\ PreOrderBefore(args.input, ret[i], ret[j])
    /\ args.input = <<<<"L">>, <<"L", ":", "C">>, <<"L", ":", "C", ":", "H">>,
                      <<"L", ":", "C", ":", "I">>>>
         => ret = <<<<"L", ":", "C">>, <<"L", ":", "C", ":", "H">>,
                    <<"L", ":", "C", ":", "I">>>>

\* the number of days from the first day of year y to the date m
RECURSIVE DaysSince(_, _)
DaysSince(y, m) ==
  IF m.year <= y THEN m.dayOfYear - 1
  ELSE DaysInYear(y) + DaysSince(y + 1, m)

\* the number of days from a to b, for a not after b
SpanDays(a, b) == DaysSince(a.year, b) - (a.dayOfYear - 1)

\* C10 (as claimed): after any sequence of start edits, end edits and Daily
\* clicks the selected range has startDate <= endDate and spans at most 15
\* days, and a range that an event has adjusted spans exactly 15 days.
C10_WindowAtMost15Days ==
  event # "none" =>
    /\ IsSameOrBefore(startDate, endDate)
    /\ SpanDays(startDate, endDate) <= 15
    /\ notice # "none" => SpanDays(startDate, endDate) = 15

====
